---- MODULE Spec2Model ----
(***************************************************************************)
(* trainlog_new_tracks.py: the batch script that splits a trip table at a  *)
(* cutoff day, decodes the paths, subtracts a buffer around every          *)
(* historical line from every new line and exports the remaining           *)
(* fragments.                                                              *)
(*                                                                         *)
(* Geometry is modelled on a one-dimensional grid: a point is <<lon, lat>> *)
(* with lat = 0 and an integer lon, one grid unit being the buffer radius  *)
(* of the script (0.0015 degrees).  A line covers the unit cells between   *)
(* its vertices (cell c is the piece of track from lon c to lon c + 1), a  *)
(* polygonal region is a set of cells, and the set difference of the two   *)
(* is computed cell by cell.                                               *)
(***************************************************************************)
EXTENDS Integers, Sequences, FiniteSets, TLC

\* ---- bounds -------------------------------------------------------------
\* rows of the input table
MaxTrips == 3
\* easternmost grid coordinate of an enumerated line
MaxLon == 5
\* historical lines of the difference-engine specification
MaxHist == 2

\* ---- command line (lines 24-29) -----------------------------------------
since_day == "2025-01-01"

trip_types_list == {"train"}

original_columns == <<"type", "start_datetime", "path">>

\* ---- timestamps (pd.to_datetime, to_csv) --------------------------------
NaT == [nat |-> TRUE, date |-> 0, time |-> 0]

Timestamp(d, t) == [nat |-> FALSE, date |-> d, time |-> t]

\* pd.to_datetime(..., errors='coerce') on one cell: the instant the text
\* denotes, NaT for a text that is no date.
to_datetime(text) ==
  CASE text = "2024-06-01 08:00:00" -> Timestamp(20240601, 800)
    [] text = "2025-01-01" -> Timestamp(20250101, 0)
    [] text = "2025-01-01T00:00:00" -> Timestamp(20250101, 0)
    [] text = "2025-03-01 09:30:00" -> Timestamp(20250301, 930)
    [] OTHER -> NaT

since_date == to_datetime(since_day)

Earlier(a, b) == a.date < b.date \/ (a.date = b.date /\ a.time < b.time)

\* start_datetime <= since_date
IsHistory_AtOrBefore(ts) == ~ts.nat /\ ~Earlier(since_date, ts)

\* start_datetime < since_date ; a comparison with NaT is False
IsHistory(ts) == ~ts.nat /\ Earlier(ts, since_date)

\* start_datetime >= since_date
IsNew(ts) == ~ts.nat /\ ~Earlier(ts, since_date)

\* to_csv on a datetime column: the date alone when every value of the
\* column is at midnight, date and time separated by a blank otherwise.
format_datetime(ts, dates_only) ==
  CASE ts = Timestamp(20240601, 800) -> "2024-06-01 08:00:00"
    [] ts = Timestamp(20250101, 0) /\ dates_only -> "2025-01-01"
    [] ts = Timestamp(20250101, 0) /\ ~dates_only -> "2025-01-01 00:00:00"
    [] ts = Timestamp(20250301, 930) -> "2025-03-01 09:30:00"
    [] OTHER -> ""

\* ---- sequences ----------------------------------------------------------
RECURSIVE SelectRows(_, _)
\* the rows of a frame whose position satisfies keep, in frame order
SelectRows(rows, keep) ==
  IF rows = <<>> THEN <<>>
  ELSE LET rest == SelectRows(Tail(rows), [k \in 1..(Len(rows) - 1) |-> keep[k + 1]])
       IN IF keep[1] THEN <<Head(rows)>> \o rest ELSE rest

RECURSIVE Concat(_)
Concat(seqs) == IF seqs = <<>> THEN <<>> ELSE Head(seqs) \o Concat(Tail(seqs))

Range(seq) == {seq[k] : k \in 1..Len(seq)}

Min(S) == CHOOSE x \in S : \A y \in S : x <= y

Max(S) == CHOOSE x \in S : \A y \in S : x >= y

\* ---- geometry (shapely) -------------------------------------------------
\* buffer radius of line 153, in grid units
Tolerance == 1

\* cells covered by one coordinate sequence
CoordCells(coords) ==
  UNION {Min({coords[k][1], coords[k + 1][1]})..(Max({coords[k][1], coords[k + 1][1]}) - 1) :
           k \in 1..(Len(coords) - 1)}

\* LineString(coords); finite is FALSE when a coordinate is NaN
LineString(coords, finite) ==
  [geom_type |-> "LineString", geoms |-> <<coords>>, finite |-> finite]

Cells(g) == UNION {CoordCells(g.geoms[k]) : k \in 1..Len(g.geoms)}

is_empty(g) == g.geoms = <<>>

\* hist_line.buffer(-r): a negative radius leaves no region around a line
buffer_negative(h, r) == {}

\* hist_line.buffer(r): the region within r of the line
buffer(h, r) == UNION {(c - r)..(c + r) : c \in Cells(h)}

RECURSIVE Runs(_)
\* the maximal runs of consecutive cells of S, west to east, each as the
\* coordinate sequence of the line that covers it
Runs(S) ==
  IF S = {} THEN <<>>
  ELSE LET lo == Min(S)
           hi == Max({e \in S : (lo..e) \subseteq S})
       IN <<(<<(<<lo, 0>>), (<<hi + 1, 0>>)>>)>> \o Runs(S \ (lo..hi))

\* g.difference(region): the part of g outside the region; untouched
\* geometry is returned as it is, cut geometry as its remaining pieces
difference(g, region) ==
  LET left == Cells(g) \ region
      parts == Runs(left)
  IN IF left = Cells(g) THEN g
     ELSE [geom_type |-> IF Len(parts) > 1 THEN "MultiLineString" ELSE "LineString",
           geoms |-> parts, finite |-> g.finite]

\* ---- path codec (lines 89-113, 188-193) ---------------------------------
\* A cell of the path column is modelled by what the decoders make of it:
\*   fmt "nan"      an empty cell (a float, not a str)
\*   fmt "polyline" polyline.decode returns val, a list of (lat, lon)
\*   fmt "json"     polyline.decode raises, the text starts with '[' and
\*                  json.loads returns val, a list of lists of numbers
\*   fmt "badjson"  polyline.decode raises, the text starts with '[' and
\*                  json.loads raises JSONDecodeError
\*   fmt "text"     polyline.decode raises and the text does not start
\*                  with '['
\* finite is FALSE when a number of the text is NaN.
Path(fmt, val, finite) == [fmt |-> fmt, val |-> val, finite |-> finite]

NoGeometry == [geom_type |-> "None", geoms |-> <<>>, finite |-> TRUE]

\* a coordinate tuple shapely accepts: two or three ordinates
IsPoint(item) == Len(item) \in {2, 3}

\* lines 96-108: the coordinate list the two decoders leave
DecodedCoords(path) ==
  CASE path.fmt = "polyline" -> [k \in 1..Len(path.val) |-> <<path.val[k][2], path.val[k][1]>>]
    [] path.fmt = "json" -> path.val
    [] OTHER -> <<>>

\* parse_path_and_to_geometry: status "ok" with the line, "none" for None,
\* "raise" when LineString(coords) raises on coords that are no points
parse_path_and_to_geometry(path) ==
  IF path.fmt = "nan" THEN [status |-> "none", geometry |-> NoGeometry]
  ELSE LET coords == DecodedCoords(path)
       IN IF Len(coords) < 2 THEN [status |-> "none", geometry |-> NoGeometry]
          ELSE IF \E k \in 1..Len(coords) : ~IsPoint(coords[k])
               THEN [status |-> "raise", geometry |-> NoGeometry]
               ELSE [status |-> "ok", geometry |-> LineString(coords, path.finite)]

\* encode_linestring_to_polyline on a LineString: the text polyline.encode
\* returns for the (lat, lon) pairs
encode_linestring_to_polyline(coords) ==
  Path("polyline", [k \in 1..Len(coords) |-> <<coords[k][2], coords[k][1]>>], TRUE)

\* ---- input values --------------------------------------------------------
\* Dates of the rows that pass the filters: before the cutoff, at the cutoff
\* (in the ISO form with a T) and after it.
StartTexts == {"2024-06-01 08:00:00", "2025-01-01T00:00:00", "2025-03-01 09:30:00"}

PathValues ==
  { Path("text", <<>>, TRUE),
    Path("json", <<(<<0>>), (<<1>>)>>, TRUE),
    Path("json", <<(<<2, 0>>), (<<3, 0>>)>>, TRUE),
    Path("json", <<(<<0, 0>>), (<<MaxLon, 0>>)>>, FALSE),
    Path("polyline", <<(<<0, 0>>), (<<0, MaxLon>>)>>, TRUE) }

\* Rows of an included type with a date, every path; and one row of an
\* excluded type and one with a text that is no date (the script drops both
\* before it looks at their path).
TripValues ==
  [type : {"train"}, start_datetime : StartTexts, path : PathValues]
  \cup {[type |-> "bus", start_datetime |-> "2024-06-01 08:00:00",
         path |-> Path("polyline", <<(<<0, 0>>), (<<0, MaxLon>>)>>, TRUE)],
        [type |-> "train", start_datetime |-> "unknown",
         path |-> Path("polyline", <<(<<0, 0>>), (<<0, MaxLon>>)>>, TRUE)]}

Tables == UNION {[1..n -> TripValues] : n \in 0..MaxTrips}

\* ---- state --------------------------------------------------------------
VARIABLES
  pc,                               \* the statement the script is at
  error,                            \* the message or exception that ended it
  input_file,                       \* args.input_file: exists, rows
  output_file,                      \* args.output_file: exists, written, columns, rows
  df,                               \* line 37
  df_history,                       \* lines 67, 121, 125
  df_new,                           \* lines 70, 120, 124
  geo_history,                      \* line 127
  i,                                \* position of the outer loop in df_new
  j,                                \* position of the inner loop in geo_history
  current_new_part,                 \* line 148
  new_segments_with_metadata,       \* line 136
  final_new_routes_with_metadata    \* line 168

vars == <<pc, error, input_file, output_file, df, df_history, df_new, geo_history,
          i, j, current_new_part, new_segments_with_metadata,
          final_new_routes_with_metadata>>

frames == <<df, df_history, df_new, geo_history>>

loop == <<i, j, current_new_part, new_segments_with_metadata>>

NoFile == [exists |-> FALSE, written |-> FALSE, columns |-> <<>>, rows |-> <<>>]

\* a file some earlier run left at the destination
OldFile == [exists |-> TRUE, written |-> FALSE, columns |-> original_columns, rows |-> <<>>]

Init ==
  /\ pc = "check_output"
  /\ error = ""
  /\ input_file \in {[exists |-> FALSE, rows |-> <<>>]} \cup [exists : {TRUE}, rows : Tables]
  /\ output_file \in {NoFile, OldFile}
  /\ df = <<>>
  /\ df_history = <<>>
  /\ df_new = <<>>
  /\ geo_history = <<>>
  /\ i = 0
  /\ j = 0
  /\ current_new_part = NoGeometry
  /\ new_segments_with_metadata = <<>>
  /\ final_new_routes_with_metadata = <<>>

\* lines 31-34 without the exit() of line 34
CheckOutput_Proceed ==
  /\ pc = "check_output"
  /\ pc' = "read_csv"
  /\ error' = IF output_file.exists THEN "OutputExists" ELSE error
  /\ UNCHANGED <<input_file, output_file, frames, loop, final_new_routes_with_metadata>>

\* lines 31-34
CheckOutput ==
  /\ pc = "check_output"
  /\ IF output_file.exists
     THEN pc' = "exited" /\ error' = "OutputExists"
     ELSE pc' = "read_csv" /\ UNCHANGED error
  /\ UNCHANGED <<input_file, output_file, frames, loop, final_new_routes_with_metadata>>

\* lines 36-42
ReadCsv ==
  /\ pc = "read_csv"
  /\ IF input_file.exists
     THEN /\ df' = [k \in 1..Len(input_file.rows) |->
                      [index |-> k, type |-> input_file.rows[k].type,
                       start_datetime |-> input_file.rows[k].start_datetime,
                       path |-> input_file.rows[k].path]]
          /\ pc' = "split"
          /\ UNCHANGED error
     ELSE /\ pc' = "exited"
          /\ error' = "InputNotFound"
          /\ UNCHANGED df
  /\ UNCHANGED <<input_file, output_file, df_history, df_new, geo_history, loop,
                 final_new_routes_with_metadata>>

\* lines 48-59: the rows of an included type, start_datetime parsed, the
\* rows whose date did not parse dropped
df_filtered ==
  LET parsed == [k \in 1..Len(df) |->
                   [index |-> df[k].index, type |-> df[k].type,
                    start_datetime |-> to_datetime(df[k].start_datetime),
                    path |-> df[k].path, geometry |-> NoGeometry]]
  IN SelectRows(parsed, [k \in 1..Len(df) |->
                           parsed[k].type \in trip_types_list /\ ~parsed[k].start_datetime.nat])

\* lines 44-78
Split ==
  /\ pc = "split"
  /\ df_history' = SelectRows(df_filtered, [k \in 1..Len(df_filtered) |->
                                              IsHistory(df_filtered[k].start_datetime)])
  /\ df_new' = SelectRows(df_filtered, [k \in 1..Len(df_filtered) |->
                                          IsNew(df_filtered[k].start_datetime)])
  /\ df' = <<>>
  /\ pc' = "year_summary"
  /\ UNCHANGED <<error, input_file, output_file, geo_history, loop,
                 final_new_routes_with_metadata>>

\* lines 80-86: min() and max() of an empty column are NaN and int(NaN) raises
YearSummary ==
  /\ pc = "year_summary"
  /\ IF df_history = <<>>
     THEN pc' = "crashed" /\ error' = "YearSummaryValueError"
     ELSE pc' = "convert" /\ UNCHANGED error
  /\ UNCHANGED <<input_file, output_file, frames, loop, final_new_routes_with_metadata>>

WithGeometry(rows) ==
  [k \in 1..Len(rows) |->
     [rows[k] EXCEPT !.geometry = parse_path_and_to_geometry(rows[k].path).geometry]]

HasGeometry(rows) == [k \in 1..Len(rows) |-> rows[k].geometry # NoGeometry]

\* lines 116-130
Convert ==
  /\ pc = "convert"
  /\ IF \E r \in Range(df_new) \cup Range(df_history) :
          parse_path_and_to_geometry(r.path).status = "raise"
     THEN /\ pc' = "crashed"
          /\ error' = "LineStringError"
          /\ UNCHANGED <<df_new, df_history, geo_history, i>>
     ELSE /\ df_new' = SelectRows(WithGeometry(df_new), HasGeometry(WithGeometry(df_new)))
          /\ df_history' = SelectRows(WithGeometry(df_history),
                                      HasGeometry(WithGeometry(df_history)))
          /\ geo_history' = [k \in 1..Len(df_history') |-> df_history'[k].geometry]
          /\ i' = 1
          /\ pc' = "difference"
          /\ UNCHANGED error
  /\ UNCHANGED <<input_file, output_file, df, j, current_new_part,
                 new_segments_with_metadata, final_new_routes_with_metadata>>

\* ---- difference engine (lines 132-165) ----------------------------------
Item(geometry, trip) == [geometry |-> geometry, original_trip |-> trip]

IsLineal(g) == g.geom_type \in {"LineString", "MultiLineString"}

\* the loop without the early exit of lines 150-151
ShouldBreak_Never(part) == FALSE

\* line 150
ShouldBreak(part) == is_empty(part)

\* line 155 subtracting from new_line_geom instead of current_new_part
SubtractStep_FromOriginal(part, new_line_geom, hist_line) ==
  difference(new_line_geom, buffer(hist_line, Tolerance))

\* lines 152-155: the remainder after one historical line
SubtractStep(part, new_line_geom, hist_line) ==
  difference(part, buffer(hist_line, Tolerance))

RECURSIVE InnerLoop(_, _, _)
\* lines 149-155 as a fold over the historical lines still to visit
InnerLoop(part, new_line_geom, hist) ==
  IF hist = <<>> \/ ShouldBreak(part) THEN part
  ELSE InnerLoop(SubtractStep(part, new_line_geom, Head(hist)), new_line_geom, Tail(hist))

\* lines 147-155: what the inner loop leaves of one new line
remaining(new_line_geom, hist) == InnerLoop(new_line_geom, new_line_geom, hist)

\* lines 138-142
NoHistory ==
  /\ pc = "difference"
  /\ geo_history = <<>>
  /\ new_segments_with_metadata' =
       [k \in 1..Len(df_new) |-> Item(df_new[k].geometry, df_new[k])]
  /\ pc' = "flatten"
  /\ UNCHANGED <<error, input_file, output_file, frames, i, j, current_new_part,
                 final_new_routes_with_metadata>>

\* lines 145-148
StartTrip ==
  /\ pc = "difference"
  /\ geo_history # <<>>
  /\ i <= Len(df_new)
  /\ current_new_part' = df_new[i].geometry
  /\ j' = 1
  /\ pc' = "hist_loop"
  /\ UNCHANGED <<error, input_file, output_file, frames, i, new_segments_with_metadata,
                 final_new_routes_with_metadata>>

\* lines 149-151: the early exit
HistBreak ==
  /\ pc = "hist_loop"
  /\ j <= Len(geo_history)
  /\ ShouldBreak(current_new_part)
  /\ pc' = "collect"
  /\ UNCHANGED <<error, input_file, output_file, frames, loop,
                 final_new_routes_with_metadata>>

\* lines 149-155: one historical line buffered and subtracted
HistSubtract ==
  /\ pc = "hist_loop"
  /\ j <= Len(geo_history)
  /\ ~ShouldBreak(current_new_part)
  /\ current_new_part' = SubtractStep(current_new_part, df_new[i].geometry, geo_history[j])
  /\ j' = j + 1
  /\ UNCHANGED <<pc, error, input_file, output_file, frames, i,
                 new_segments_with_metadata, final_new_routes_with_metadata>>

\* lines 153-155 on a line with a NaN coordinate: GEOS may raise, and nothing
\* catches the exception
HistSubtractRaises ==
  /\ pc = "hist_loop"
  /\ j <= Len(geo_history)
  /\ ~ShouldBreak(current_new_part)
  /\ ~current_new_part.finite \/ ~geo_history[j].finite
  /\ pc' = "crashed"
  /\ error' = "DifferenceError"
  /\ UNCHANGED <<input_file, output_file, frames, loop, final_new_routes_with_metadata>>

\* line 149: the historical lines are exhausted
HistExhausted ==
  /\ pc = "hist_loop"
  /\ j > Len(geo_history)
  /\ pc' = "collect"
  /\ UNCHANGED <<error, input_file, output_file, frames, loop,
                 final_new_routes_with_metadata>>

\* lines 157-164: what is kept of the remainder of one trip
Collected(part, trip) ==
  IF is_empty(part) THEN <<>>
  ELSE IF IsLineal(part) THEN <<Item(part, trip)>>
  ELSE IF part.geom_type = "GeometryCollection"
       THEN SelectRows([k \in 1..Len(part.geoms) |-> Item(part.geoms[k], trip)],
                       [k \in 1..Len(part.geoms) |-> IsLineal(part.geoms[k])])
       ELSE <<>>

\* lines 157-164
Collect ==
  /\ pc = "collect"
  /\ new_segments_with_metadata' =
       new_segments_with_metadata \o Collected(current_new_part, df_new[i])
  /\ i' = i + 1
  /\ pc' = "difference"
  /\ UNCHANGED <<error, input_file, output_file, frames, j, current_new_part,
                 final_new_routes_with_metadata>>

\* line 165
DifferenceComplete ==
  /\ pc = "difference"
  /\ geo_history # <<>>
  /\ i > Len(df_new)
  /\ pc' = "flatten"
  /\ UNCHANGED <<error, input_file, output_file, frames, loop,
                 final_new_routes_with_metadata>>

\* ---- flattening and export (lines 167-214) ------------------------------
\* lines 172-177 for one item
Flattened(item) ==
  IF item.geometry.geom_type = "LineString" THEN <<item>>
  ELSE IF item.geometry.geom_type = "MultiLineString"
       THEN [k \in 1..Len(item.geometry.geoms) |->
               Item(LineString(item.geometry.geoms[k], item.geometry.finite),
                    item.original_trip)]
       ELSE <<>>

\* lines 167-184
FlattenResults ==
  /\ pc = "flatten"
  /\ final_new_routes_with_metadata' =
       Concat([k \in 1..Len(new_segments_with_metadata) |->
                 Flattened(new_segments_with_metadata[k])])
  /\ pc' = "export"
  /\ UNCHANGED <<error, input_file, output_file, frames, loop>>

\* lines 202-209: the dictionaries of new_routes_data
new_routes_data ==
  [k \in 1..Len(final_new_routes_with_metadata) |->
     [final_new_routes_with_metadata[k].original_trip EXCEPT
        !.path = encode_linestring_to_polyline(
                   final_new_routes_with_metadata[k].geometry.geoms[1])]]

\* line 214: the rows to_csv writes for the original columns
CsvRows(data) ==
  LET dates_only == \A k \in 1..Len(data) : data[k].start_datetime.time = 0
  IN [k \in 1..Len(data) |->
        [type |-> data[k].type,
         start_datetime |-> format_datetime(data[k].start_datetime, dates_only),
         path |-> data[k].path]]

\* lines 196-214: polyline.encode raises on a NaN coordinate; a frame built
\* from no dictionaries has no columns and selecting the original columns
\* raises KeyError
Export ==
  /\ pc = "export"
  /\ IF \E k \in 1..Len(final_new_routes_with_metadata) :
          ~final_new_routes_with_metadata[k].geometry.finite
     THEN pc' = "crashed" /\ error' = "EncodeValueError" /\ UNCHANGED output_file
     ELSE IF new_routes_data = <<>>
     THEN pc' = "crashed" /\ error' = "KeyError" /\ UNCHANGED output_file
     ELSE /\ output_file' = [exists |-> TRUE, written |-> TRUE,
                             columns |-> original_columns,
                             rows |-> CsvRows(new_routes_data)]
          /\ pc' = "done"
          /\ UNCHANGED error
  /\ UNCHANGED <<input_file, frames, loop, final_new_routes_with_metadata>>

\* ---- specifications -----------------------------------------------------
Next ==
  \/ CheckOutput
  \/ ReadCsv
  \/ Split
  \/ YearSummary
  \/ Convert
  \/ NoHistory
  \/ StartTrip
  \/ HistBreak
  \/ HistSubtract
  \/ HistSubtractRaises
  \/ HistExhausted
  \/ Collect
  \/ DifferenceComplete
  \/ FlattenResults
  \/ Export

Spec == Init /\ [][Next]_vars

\* The inner loop on its own: the script at line 145 with one new line and
\* up to MaxHist historical lines, each any west-to-east two-point line of
\* the grid.
EngineLines ==
  {LineString(<<(<<ab[1], 0>>), (<<ab[2], 0>>)>>, TRUE) :
     ab \in {p \in (0..MaxLon) \X (0..MaxLon) : p[1] < p[2]}}

\* the new line starts at the western edge of the grid: the operations are
\* invariant under translation, the historical lines lie anywhere
EngineCandidates == {line \in EngineLines : line.geoms[1][1][1] = 0}

EngineHistories == UNION {[1..n -> EngineLines] : n \in 1..MaxHist}

\* the row of the input table that decodes to the line
CsvTrip(text, line) ==
  [type |-> "train", start_datetime |-> text,
   path |-> encode_linestring_to_polyline(line.geoms[1])]

\* the row of df_history or df_new the script makes of it
FrameTrip(k, text, line) ==
  [index |-> k, type |-> "train", start_datetime |-> to_datetime(text),
   path |-> encode_linestring_to_polyline(line.geoms[1]), geometry |-> line]

InitEngine ==
  \E candidate \in EngineCandidates, hist \in EngineHistories :
    /\ pc = "difference"
    /\ error = ""
    /\ input_file =
         [exists |-> TRUE,
          rows |-> [k \in 1..(Len(hist) + 1) |->
                      IF k <= Len(hist) THEN CsvTrip("2024-06-01 08:00:00", hist[k])
                      ELSE CsvTrip("2025-03-01 09:30:00", candidate)]]
    /\ output_file = NoFile
    /\ df = <<>>
    /\ df_history = [k \in 1..Len(hist) |-> FrameTrip(k, "2024-06-01 08:00:00", hist[k])]
    /\ df_new = <<FrameTrip(Len(hist) + 1, "2025-03-01 09:30:00", candidate)>>
    /\ geo_history = hist
    /\ i = 1
    /\ j = 0
    /\ current_new_part = NoGeometry
    /\ new_segments_with_metadata = <<>>
    /\ final_new_routes_with_metadata = <<>>

NextEngine ==
  \/ StartTrip
  \/ HistBreak
  \/ HistSubtract
  \/ HistExhausted

SpecEngine == InitEngine /\ [][NextEngine]_vars

\* ---- claims -------------------------------------------------------------
IndexesOf(rows) == {rows[k].index : k \in 1..Len(rows)}

\* the input row is of an included type and its date parses
Included(trip) ==
  trip.type \in trip_types_list /\ ~to_datetime(trip.start_datetime).nat

StartsBeforeCutoff(trip) == Earlier(to_datetime(trip.start_datetime), since_date)

\* the path decodes, by either codec, to a sequence of at least two points
Decodable(path) ==
  /\ path.fmt \in {"polyline", "json"}
  /\ Len(path.val) >= 2
  /\ \A k \in 1..Len(path.val) : Len(path.val[k]) >= 2

\* no included trip before the cutoff has a decodable path
NoHistoricalLine ==
  \A k \in 1..Len(input_file.rows) :
    Included(input_file.rows[k]) /\ StartsBeforeCutoff(input_file.rows[k])
      => ~Decodable(input_file.rows[k].path)

\* some included trip on or after the cutoff has a decodable path
SomeNewLine ==
  \E k \in 1..Len(input_file.rows) :
    /\ Included(input_file.rows[k])
    /\ ~StartsBeforeCutoff(input_file.rows[k])
    /\ Decodable(input_file.rows[k].path)
    /\ input_file.rows[k].path.finite

SplitRan == pc \notin {"check_output", "read_csv", "split", "exited"}

SummaryRan == SplitRan /\ pc # "year_summary"

ConvertRan ==
  SummaryRan /\ pc # "convert" /\ error \notin {"YearSummaryValueError", "LineStringError"}

\* C1: in a run with new lines but without any historical line (no included
\* trip starts before the cutoff, or none of them has a decodable path) the
\* year summary does not end the run, and at the end of the difference
\* stage every valid new trip is kept with its own line, unchanged.
C1_NoHistoryKeepsEveryNewLine ==
  (NoHistoricalLine /\ SomeNewLine /\ SummaryRan) =>
    /\ error # "YearSummaryValueError"
    /\ pc = "flatten" =>
         /\ Len(new_segments_with_metadata) = Len(df_new)
         /\ \A k \in 1..Len(df_new) :
              /\ new_segments_with_metadata[k].original_trip = df_new[k]
              /\ new_segments_with_metadata[k].geometry =
                   LineString(DecodedCoords(df_new[k].path), df_new[k].path.finite)

\* C2: when the historical collection is one line identical to the
\* candidate, nothing remains of the candidate after the inner loop.
C2_IdenticalHistoryLeavesNothing ==
  (pc = "collect" /\ Len(geo_history) = 1 /\ geo_history[1] = df_new[i].geometry)
    => is_empty(current_new_part)

C2_Witness ==
  /\ pc = "collect"
  /\ Len(geo_history) = 1
  /\ geo_history[1] = df_new[i].geometry
  /\ j = 2
  /\ is_empty(current_new_part)

Permuted(seq, p) == [k \in 1..Len(seq) |-> seq[p[k]]]

\* C3: the remainder the inner loop ends with is the one it ends with on
\* every permutation of the historical collection.
C3_OrderIndependent ==
  pc = "collect" =>
    \A p \in Permutations(1..Len(geo_history)) :
      remaining(df_new[i].geometry, Permuted(geo_history, p)) = current_new_part

\* two historical lines whose first subtractions leave different remainders
C3_Witness ==
  /\ pc = "collect"
  /\ Len(geo_history) = 2
  /\ ~is_empty(current_new_part)
  /\ remaining(df_new[i].geometry, <<geo_history[1]>>) # current_new_part
  /\ remaining(df_new[i].geometry, <<geo_history[2]>>) # current_new_part
  /\ remaining(df_new[i].geometry, <<geo_history[1]>>)
       # remaining(df_new[i].geometry, <<geo_history[2]>>)

\* C4: while a file from before the run sits at the destination, the run is
\* at its first statement or has exited with the collision message, and
\* nothing was loaded, computed or written.
C4_CollisionStopsRun ==
  (output_file.exists /\ ~output_file.written) =>
    /\ pc \in {"check_output", "exited"}
    /\ pc = "exited" => error = "OutputExists"
    /\ output_file = OldFile
    /\ df = <<>> /\ df_history = <<>> /\ df_new = <<>> /\ geo_history = <<>>
    /\ current_new_part = NoGeometry
    /\ new_segments_with_metadata = <<>>
    /\ final_new_routes_with_metadata = <<>>

C4_Witness ==
  /\ pc = "exited"
  /\ error = "OutputExists"
  /\ output_file = OldFile
  /\ input_file.exists
  /\ Len(input_file.rows) = MaxTrips

\* C5: a subtraction that fails for one candidate does not end the run.
C5_SubtractionFailureIsContained ==
  error = "DifferenceError" => pc # "crashed"

\* C6: decoding never raises, and once the paths are converted no row whose
\* path does not decode to at least two points is left in the historical or
\* the new frame.
C6_DecodingNeverRaises ==
  /\ error # "LineStringError"
  /\ ConvertRan =>
       \A r \in Range(df_new) \cup Range(df_history) : Decodable(r.path)

\* C7: a run that reaches the export with new trips but no fragment, every
\* remainder being empty, completes and writes a file with the input's
\* columns, in order, and no row.
C7_EmptyResultIsWritten ==
  [][(/\ pc = "export"
      /\ df_new # <<>>
      /\ \A r \in Range(df_new) \cup Range(df_history) : r.geometry.finite
      /\ final_new_routes_with_metadata = <<>>) =>
       (pc' = "done" /\ output_file' = [exists |-> TRUE, written |-> TRUE,
                                        columns |-> original_columns, rows |-> <<>>])]_vars

\* the simple lines of the remainder of new trip k, in their native order
PartsOf(k) ==
  LET left == remaining(df_new[k].geometry, geo_history)
  IN [n \in 1..Len(left.geoms) |-> left.geoms[n]]

\* the rows the file should hold for new trip k
RowsOf(k) ==
  [n \in 1..Len(PartsOf(k)) |->
     [type |-> input_file.rows[df_new[k].index].type,
      start_datetime |-> input_file.rows[df_new[k].index].start_datetime,
      path |-> encode_linestring_to_polyline(PartsOf(k)[n])]]

\* C8: the file of a completed run holds, trip after trip, one row per simple
\* line of the trip's remainder, in order, each with the fields of the input
\* row verbatim except path, which is the encoded part.
C8_OneRowPerPartWithMetadata ==
  pc = "done" =>
    output_file.rows = Concat([k \in 1..Len(df_new) |-> RowsOf(k)])

\* C9: after the split every included trip with a date is in exactly one of
\* the two frames, the historical one if and only if it starts before the
\* cutoff, and every other trip is in neither; later the frames only lose
\* rows, so that they stay disjoint and on their side of the cutoff.
C9_CutoffPartitions ==
  SplitRan =>
    /\ IndexesOf(df_history) \cap IndexesOf(df_new) = {}
    /\ \A r \in Range(df_history) :
         Included(input_file.rows[r.index]) /\ StartsBeforeCutoff(input_file.rows[r.index])
    /\ \A r \in Range(df_new) :
         Included(input_file.rows[r.index]) /\ ~StartsBeforeCutoff(input_file.rows[r.index])
    /\ pc = "year_summary" =>
         \A k \in 1..Len(input_file.rows) :
           IF Included(input_file.rows[k])
           THEN (k \in IndexesOf(df_history)) # (k \in IndexesOf(df_new))
           ELSE k \notin IndexesOf(df_history) \cup IndexesOf(df_new)

\* a trip at the cutoff in the new frame, one before it in the historical
\* frame and one dropped
C9_Witness ==
  /\ pc = "year_summary"
  /\ \E r \in Range(df_new) : r.start_datetime = since_date
  /\ df_history # <<>>
  /\ \E k \in 1..Len(input_file.rows) : ~Included(input_file.rows[k])

UnionOfBuffers == UNION {buffer(geo_history[k], Tolerance) : k \in 1..Len(geo_history)}

\* C10: the inner loop ends with the candidate minus the union of the
\* buffers of all historical lines, it subtracts only from a remainder
\* that is not empty, and an empty remainder ends it unchanged.
C10_LoopEqualsUnionDifference ==
  /\ [](pc = "collect" =>
          current_new_part = difference(df_new[i].geometry, UnionOfBuffers))
  /\ [][(pc = "hist_loop" /\ j' # j) => ~is_empty(current_new_part)]_vars
  /\ [][(pc = "hist_loop" /\ is_empty(current_new_part)) =>
          (pc' = "collect" /\ current_new_part' = current_new_part)]_vars

\* the early exit taken with historical lines left to visit
C10_Witness ==
  /\ pc = "collect"
  /\ j <= Len(geo_history)
  /\ j > 1
  /\ is_empty(current_new_part)

====
